---------------------------- MODULE Spec2Model ----------------------------
(***************************************************************************)
(* A model of manager.py, the Halite match manager: the players table of   *)
(* the sqlite store, the command line operations on it, and the round loop *)
(* (pick players, run the engine, parse its output, update the ratings,    *)
(* save the players, recompute the ranks).                                 *)
(*                                                                         *)
(* Ratings are held in thirds of a rating point, so that the default sigma *)
(* 50.0/3.0 is the integer 50 and the default mu 50.0 is 150; skill is     *)
(* mu - 3*sigma in the same unit.  List positions are 1-based here and     *)
(* 0-based in the source; PyIndex converts.  The map size and the seed     *)
(* drawn by run_rounds only parameterise the engine and its time budget,   *)
(* whose outcomes (timeout or any output) are chosen nondeterministically. *)
(*                                                                         *)
(* Spec is the manager used one invocation at a time.  StoreSpec is the    *)
(* store commands alone, PickSpec the choice of the players, ParseSpec the *)
(* parse of any output, RoundsSpec one run of any number of rounds, and    *)
(* ConcSpec a run during which other invocations give store commands.      *)
(***************************************************************************)
EXTENDS Integers, Sequences, FiniteSets, TLC

\* ------------------------------------------------------------------ bounds
\* a round starts only while the table counts fewer games than this
MaxGames == 3
\* and only while the run has counted fewer rounds than this
MaxRounds == 2
\* engine subprocesses that may be alive at once
MaxLive == 1
\* the largest pool the choice of players is checked for (PickSpec)
MaxPool == 7
\* the largest match the parse is checked for (ParseSpec)
MaxMatchPlayers == 3
\* store commands other invocations may give during one run (ConcSpec)
MaxOthers == 2

\* ------------------------------------------------------- program constants
players_min == 2
players_max == 6
Mu0 == 150
Sigma0 == 50
Skill0 == 0
Rank0 == 1000

\* the bot names given on the command line
Names == {1, 2, 3}

\* the bot paths given on the command line (--botPath)
Paths == {"MyBot.py", "OtherBot.py"}

\* the readings of the clock, as Database.now formats them
FirstTime == "01.01.2017 00:00:00"
Times == {FirstTime, "01.01.2017 00:00:01"}

\* the path a bot is usually registered with: its own
BotPath(name) == IF name = 1 THEN "MyBot.py" ELSE "OtherBot.py"

VARIABLES
    db,           \* the players table: stored name -> row
    pc,           \* where the process is
    players,      \* Manager.players, the Player objects loaded by run_matches
    rounds,       \* Manager.rounds
    round_count,  \* Manager.round_count
    picked,       \* the indices pick_players returned (o_players = players[picked])
    live,         \* engine subprocesses alive
    lines,        \* Match.results_string split at "\n", each line split at " "
    results,      \* Match.results
    replay_file,  \* Match.replay_file
    saveIdx,      \* position of save_players in o_players
    rankList,     \* the names update_player_ranks fetched, ordered by skill
    rankIdx,      \* position of update_player_ranks in rankList
    failure,      \* the exception that ended the run, "" if none
    message,      \* what the last invocation printed about its outcome
    keep_replays, \* Manager.keep_replays
    replay,       \* where the replay of the current match is
    roundStart,   \* history: the players table as the current round began
    others        \* store commands other invocations gave while this one ran

vars == <<db, pc, players, rounds, round_count, picked, live, lines, results,
          replay_file, saveIdx, rankList, rankIdx, failure, message,
          keep_replays, replay, roundStart, others>>

matchVars == <<lines, results, replay_file, replay>>
loopVars == <<saveIdx, rankList, rankIdx>>

\* ------------------------------------------------------------------ helpers
Range(s) == {s[i] : i \in 1..Len(s)}

Min(a, b) == IF a < b THEN a ELSE b

\* Player.update_skill
update_skill(mu, sigma) == mu - (sigma * 3)

\* the row Database.add_player inserts
NewRow(path, now) ==
    [path |-> path, lastseen |-> now, active |-> TRUE, rank |-> Rank0,
     skill |-> Skill0, mu |-> Mu0, sigma |-> Sigma0, ngames |-> 0]

\* parse_player_record: the fields of a row the round loop reads
parse_player_record(name, row) ==
    [name |-> name, path |-> row.path, mu |-> row.mu, sigma |-> row.sigma,
     skill |-> row.skill]

\* "select * from players where active > 0"
ActiveNames == {n \in DOMAIN db : db[n].active}

\* every order in which a select can return the rows named in S
Orders(S) == {s \in [1..Cardinality(S) -> S] : Range(s) = S}

\* the rows named in S as a select without "order by" returns them: in the
\* order of the table.  (pick_players draws the indices at random, so every
\* order of the participants is reached whatever this order is.)
TableOrder(S) == CHOOSE s \in Orders(S) : \A i, j \in 1..Len(s) : i < j => s[i] < s[j]

\* ------------------------------------------------- the engine's output text
\* what int() makes of a token; a token outside the table raises ValueError
IntTable == ("0" :> 0) @@ ("1" :> 1) @@ ("2" :> 2) @@ ("3" :> 3) @@ ("4" :> 4)

IsInt(tok) == tok \in DOMAIN IntTable

int(tok) == IntTable[tok]

\* str(i) for the numbers the engine prints
str(i) == CHOOSE tok \in DOMAIN IntTable : IntTable[tok] = i

\* a Python list index: position idx of a list of length n, negative indices
\* counting from the end; 0 when the index is out of range (IndexError)
PyIndex(idx, n) ==
    IF idx >= 0 /\ idx < n THEN idx + 1
    ELSE IF idx < 0 /\ idx >= -n THEN n + idx + 1
    ELSE 0

\* Match.__init__: results = [0 for _ in players]
InitResults(n) == [i \in 1..n |-> 0]

\* a plausible slip: the two tokens of the result line are taken the other
\* way round
ParseResultLineSwapped(line, n, st) ==
    IF ~IsInt(line[1]) THEN [st EXCEPT !.err = "ValueError"]
    ELSE IF Len(line) < 2 THEN [st EXCEPT !.err = "IndexError"]
    ELSE IF ~IsInt(line[2]) THEN [st EXCEPT !.err = "ValueError"]
    ELSE LET rank == int(line[2])
             player == int(line[1]) - 1
             pos == PyIndex(player, n)
         IN  IF pos = 0 THEN [st EXCEPT !.err = "IndexError"]
             ELSE [st EXCEPT !.results[pos] = rank]

\* one result line of parse_results_string (lines 123-126) applied to st
ParseResultLine(line, n, st) ==
    IF ~IsInt(line[1]) THEN [st EXCEPT !.err = "ValueError"]
    ELSE IF Len(line) < 2 THEN [st EXCEPT !.err = "IndexError"]
    ELSE IF ~IsInt(line[2]) THEN [st EXCEPT !.err = "ValueError"]
    ELSE LET rank == int(line[1])
             player == int(line[2]) - 1
             pos == PyIndex(player, n)
         IN  IF pos = 0 THEN [st EXCEPT !.err = "IndexError"]
             ELSE [st EXCEPT !.results[pos] = rank]

\* the loop of parse_results_string from line number count (0-based) on
RECURSIVE ParseLines(_, _, _, _)
ParseLines(ls, n, count, st) ==
    IF count >= Len(ls) \/ st.err # "" THEN st
    ELSE LET line == ls[count + 1]
             next == IF count = n THEN [st EXCEPT !.replay_file = line[1]]
                     ELSE IF count = (n * 2) + 1 THEN st
                     ELSE IF count < n THEN st
                     ELSE IF count < (n * 2) + 1 THEN ParseResultLine(line, n, st)
                     ELSE st
         IN  ParseLines(ls, n, count + 1, next)

\* a plausible slip: the line count is not checked before the loop
parse_results_string_unchecked(ls, n) ==
    ParseLines(ls, n, 0, [results |-> InitResults(n), replay_file |-> "", err |-> ""])

\* Match.parse_results_string on a fresh Match of n players
parse_results_string(ls, n) ==
    LET st0 == [results |-> InitResults(n), replay_file |-> "", err |-> ""]
    IN  IF Len(ls) < (2 + (2 * n)) THEN [st0 EXCEPT !.err = "ValueError"]
        ELSE ParseLines(ls, n, 0, st0)

\* the engine's output for n players with the given result lines, cut to len lines
HeaderLine == <<"name">>
ReplayLine == <<"replay.hlt", "seed">>
TimeoutLine == <<"0", "0">>

EngineText(n, resultLines, len) ==
    SubSeq([i \in 1..n |-> HeaderLine] \o <<ReplayLine>> \o resultLines
           \o <<TimeoutLine>> \o <<<<"">>>>, 1, len)

\* result lines that give player i the rank perm[i]
RankLines(n, perm) == [i \in 1..n |-> <<str(perm[i]), str(i)>>]

\* the outputs the round loop is run against: two well-formed rankings (in
\* the order of the invocation, and rotated by one place), an output that is
\* cut short, one with a token that is no number, and no output
EngineOutputs(n) ==
    LET ident == [i \in 1..n |-> i]
        rot == [i \in 1..n |-> (i % n) + 1]
    IN  { EngineText(n, RankLines(n, ident), (2 * n) + 3),
          EngineText(n, RankLines(n, rot), (2 * n) + 3),
          EngineText(n, RankLines(n, ident), (2 * n) + 1),
          EngineText(n, [RankLines(n, ident) EXCEPT ![n] = <<"1", "x">>], (2 * n) + 3),
          <<<<"">>>> }

\* any line the engine may print where a result line is expected
ResultLines ==
    {<<r, i>> : r \in {"1", "2"}, i \in {"0", "1", "2", "3"}}
    \cup {<<"x", "1">>, <<"2", "x">>, <<"1">>, <<"">>, <<"1", "4">>}

\* every output of at most 2n+3 lines built from those lines
AnyEngineOutputs(n) ==
    {EngineText(n, rl, len) : rl \in [1..n -> ResultLines], len \in 1..((2 * n) + 3)}

\* ------------------------------------------------------------ player choice
\* list.remove(x): the list without the first occurrence of x
ListRemove(s, x) ==
    LET i == CHOOSE j \in 1..Len(s) : s[j] = x /\ \A k \in 1..(j - 1) : s[k] # x
    IN  SubSeq(s, 1, i - 1) \o SubSeq(s, i + 1, Len(s))

\* the while loop of pick_players: every list it can return
RECURSIVE PickLoop(_, _, _, _)
PickLoop(open_set, chosenList, count, num) ==
    IF ~(count < num) THEN {chosenList}
    ELSE UNION { PickLoop(ListRemove(open_set, open_set[r]),
                          Append(chosenList, open_set[r]), count + 1, num)
                 : r \in 1..Len(open_set) }

\* Manager.pick_players(num) over a pool of poolSize players (indices from 0)
pick_players(poolSize, num) ==
    PickLoop([i \in 1..poolSize |-> i - 1], <<>>, 0, num)

\* a plausible slip: players_max is not applied
NumPlayersChoicesUncapped(poolSize) == 2..poolSize

\* random.randint(2, min(self.players_max, len(self.players)))
NumPlayersChoices(poolSize) == 2..Min(players_max, poolSize)

\* o_players[i] of run_round: the Player object picked i-th
OPlayer(i) == players[picked[i] + 1]

\* Match.paths: the paths of the players of the match, in their order
paths == [i \in 1..Len(picked) |-> OPlayer(i).path]

\* Match.get_command: the engine, its three options, then the paths
halite_command == "./halite"
get_command == <<halite_command, "-d", "-q", "-s">> \o paths

\* update_ranks: the teams handed to the rating engine, one per player of the
\* match in their order, each with the player's name and prior rating; team i
\* is rated with ranks[i]
Teams == [i \in 1..Len(picked) |->
            [name |-> OPlayer(i).name, mu |-> OPlayer(i).mu, sigma |-> OPlayer(i).sigma]]

\* ------------------------------------------------------------- the ratings
\* calc.new_ratings, the TrueSkill calculator of the skills library, as far
\* as the manager depends on it: one rating per player of the match, decided
\* by the ranks; the first place gains, the others lose
WinnerRating == [mean |-> 180, stdev |-> 40]
LoserRating == [mean |-> 120, stdev |-> 45]

new_ratings(ranks) ==
    {[i \in 1..Len(ranks) |-> IF ranks[i] = 1 THEN WinnerRating ELSE LoserRating]}

\* update_player_skill (module level): the first player of the match with
\* that name takes the rating and recomputes its skill
UpdatedPlayer(p, skill_data) ==
    [p EXCEPT !.mu = skill_data.mean, !.sigma = skill_data.stdev,
              !.skill = update_skill(skill_data.mean, skill_data.stdev)]

\* run_matches(1) for --match, run_matches(-1) for --forever
RoundsChoices == {-1, 1}

\* ------------------------------------------------------------------- Init
Init ==
    /\ db = <<>>
    /\ pc = "idle"
    /\ players = <<>>
    /\ rounds = -1
    /\ round_count = 0
    /\ picked = <<>>
    /\ live = 0
    /\ lines = <<>>
    /\ results = <<>>
    /\ replay_file = ""
    /\ saveIdx = 0
    /\ rankList = <<>>
    /\ rankIdx = 0
    /\ failure = ""
    /\ message = ""
    /\ keep_replays = TRUE
    /\ replay = ""
    /\ roundStart = <<>>
    /\ others = 0

\* ------------------------------------------- command line, one per invocation
\* what Manager.add_player prints when the name is taken
AlreadyUsed == "Bot name already used, no bot added"

\* "select * from players where name=?"
get_player(table, name) == {n \in DOMAIN table : n = name}

\* a plausible slip: the row is written whether or not the name is taken
add_player_overwrite(table, name, path, now) ==
    (name :> NewRow(path, now)) @@ table

\* Manager.add_player on the table: insert unless the name is taken
add_player(table, name, path, now) ==
    IF Cardinality(get_player(table, name)) = 0
    THEN (name :> NewRow(path, now)) @@ table
    ELSE table

\* Database.delete_player: "delete from players where name=?"
delete_player(table, name) == [n \in DOMAIN table \ {name} |-> table[n]]

\* Database.activate_player / deactivate_player:
\* "update players set active=? where name=?"
set_active(table, name, flag) ==
    [n \in DOMAIN table |-> IF n = name THEN [table[n] EXCEPT !.active = flag]
                             ELSE table[n]]

\* --addBot name --botPath path
AddBot(name, path, now) ==
    /\ pc = "idle"
    /\ db' = add_player(db, name, path, now)
    /\ message' = IF Cardinality(get_player(db, name)) = 0 THEN "" ELSE AlreadyUsed
    /\ UNCHANGED <<pc, players, rounds, round_count, picked, live, matchVars,
                   loopVars, failure, keep_replays, roundStart,
                   others>>

\* --deleteBot name
DeleteBot(name) ==
    /\ pc = "idle"
    /\ db' = delete_player(db, name)
    /\ message' = ""
    /\ UNCHANGED <<pc, players, rounds, round_count, picked, live, matchVars,
                   loopVars, failure, keep_replays, roundStart,
                   others>>

\* --activateBot name / --deactivateBot name
SetActive(name, flag) ==
    /\ pc = "idle"
    /\ db' = set_active(db, name, flag)
    /\ message' = ""
    /\ UNCHANGED <<pc, players, rounds, round_count, picked, live, matchVars,
                   loopVars, failure, keep_replays, roundStart,
                   others>>

\* a plausible slip: the test lets a single player through
TooFewPlayersOffByOne(loaded) == Len(loaded) < 1

\* Commandline.run_matches: "if len(players) < 2"
TooFewPlayers(loaded) == Len(loaded) < 2

\* what Commandline.run_matches prints when it has too few players
NotEnough == "Not enough players for a game"

\* Commandline.act and run_matches(r): --no-replays clears keep_replays; load
\* the active players, stop if too few
RunMatches(r, deleteReplays) ==
    /\ pc = "idle"
    /\ keep_replays' = IF deleteReplays THEN FALSE ELSE keep_replays
    /\ LET order == TableOrder(ActiveNames)
           loaded == [i \in 1..Len(order) |-> parse_player_record(order[i], db[order[i]])]
       IN  IF TooFewPlayers(loaded)
           THEN /\ pc' = "halted"
                /\ message' = NotEnough
                /\ UNCHANGED <<players, rounds>>
           ELSE /\ pc' = "loop"
                /\ message' = ""
                /\ players' = loaded
                /\ rounds' = r
    /\ UNCHANGED <<db, round_count, picked, live, matchVars, loopVars, failure,
                   roundStart,
                   others>>

\* the games counted in the rows named in S (rounds start while the table
\* counts fewer than MaxGames)
RECURSIVE GamesStored(_)
GamesStored(S) ==
    IF S = {} THEN 0
    ELSE LET n == CHOOSE n \in S : TRUE IN db[n].ngames + GamesStored(S \ {n})

\* --------------------------------------------------------- the round loop
\* the run ends with an exception: the process is left as it stands
Raise(kind) ==
    /\ pc' = "crashed"
    /\ failure' = kind

\* a plausible slip: the test lets one round too many through
run_rounds_test_inclusive(r, count) == (r < 0) \/ (count <= r)

\* Manager.run_rounds: "while (self.rounds < 0) or (self.round_count < self.rounds)"
run_rounds_test(r, count) == (r < 0) \/ (count < r)

\* Manager.run_rounds: the loop test, the draw of the players and the Match
RunRoundsLoop ==
    /\ pc = "loop"
    /\ IF run_rounds_test(rounds, round_count)
       THEN /\ round_count < MaxRounds
            /\ GamesStored(DOMAIN db) < MaxGames
            /\ \E num \in NumPlayersChoices(Len(players)) :
                 \E chosen \in pick_players(Len(players), num) :
                   /\ picked' = chosen
                   /\ results' = InitResults(num)
            /\ lines' = <<>>
            /\ replay_file' = ""
            /\ replay' = ""
            /\ roundStart' = db
            /\ pc' = "spawn"
       ELSE /\ pc' = "done"
            /\ UNCHANGED <<picked, matchVars, roundStart>>
    /\ UNCHANGED <<db, players, rounds, round_count, live, loopVars, failure, message,
                   keep_replays, others>>

\* Match.run_match: Popen starts the engine, or fails to
SpawnEngine ==
    /\ pc = "spawn"
    /\ \/ /\ live < MaxLive
          /\ live' = live + 1
          /\ pc' = "communicate"
          /\ UNCHANGED failure
       \/ /\ Raise("ProcessError")
          /\ UNCHANGED live
    /\ UNCHANGED <<db, players, rounds, round_count, picked, matchVars, loopVars,
                   message, keep_replays, roundStart,
                   others>>

\* Match.run_match: communicate returns the engine's output when it has
\* exited, or raises TimeoutExpired and leaves the engine running.  An engine
\* that got as far as naming its replay has written it.
Communicate ==
    /\ pc = "communicate"
    /\ \/ /\ \E out \in EngineOutputs(Len(picked)) :
               /\ lines' = out
               /\ replay' = IF Len(out) > Len(picked) THEN "written" ELSE ""
          /\ live' = live - 1
          /\ pc' = "parse"
          /\ UNCHANGED failure
       \/ /\ Raise("TimedOut")
          /\ UNCHANGED <<live, lines, replay>>
    /\ UNCHANGED <<db, players, rounds, round_count, picked, results, replay_file,
                   loopVars, message, keep_replays, roundStart,
                   others>>

\* a plausible slip: the parse error is caught and the round goes on
ParseResultsSwallowed ==
    /\ pc = "parse"
    /\ LET st == parse_results_string(lines, Len(picked))
       IN  /\ results' = st.results
           /\ replay_file' = st.replay_file
           /\ failure' = IF st.err # "" THEN "ParseError" ELSE failure
    /\ pc' = "update_ranks"
    /\ UNCHANGED <<db, players, rounds, round_count, picked, live, lines, replay,
                   loopVars, message, keep_replays, roundStart,
                   others>>

\* Match.run_match: parse_results_string
ParseResults ==
    /\ pc = "parse"
    /\ LET st == parse_results_string(lines, Len(picked))
       IN  /\ results' = st.results
           /\ replay_file' = st.replay_file
           /\ IF st.err # "" THEN Raise("ParseError")
              ELSE pc' = "update_ranks" /\ UNCHANGED failure
    /\ UNCHANGED <<db, players, rounds, round_count, picked, live, lines, replay,
                   loopVars, message, keep_replays, roundStart,
                   others>>

\* update_ranks: the rating engine's ratings go to the Player objects
UpdateRanks ==
    /\ pc = "update_ranks"
    /\ \E updated \in new_ratings(results) :
         players' = [j \in 1..Len(players) |->
                       IF \E i \in 1..Len(picked) : picked[i] + 1 = j
                       THEN LET i == CHOOSE i \in 1..Len(picked) : picked[i] + 1 = j
                            IN  UpdatedPlayer(players[j], updated[i])
                       ELSE players[j]]
    /\ pc' = "replay"
    /\ UNCHANGED <<db, rounds, round_count, picked, live, matchVars, loopVars, failure,
                   message, keep_replays, roundStart,
                   others>>

\* Match.run_match: the replay is moved to the replay directory or removed,
\* or that fails; run_match returns and save_players begins
DisposeReplay ==
    /\ pc = "replay"
    /\ \/ /\ replay' = IF keep_replays THEN "kept" ELSE "deleted"
          /\ pc' = "save"
          /\ saveIdx' = 1
          /\ UNCHANGED failure
       \/ /\ Raise("ReplayError")
          /\ UNCHANGED <<saveIdx, replay>>
    /\ UNCHANGED <<db, players, rounds, round_count, picked, live, lines, results,
                   replay_file, rankList, rankIdx, message, keep_replays, roundStart,
                   others>>

\* a plausible slip: the statement does not count the game
update_player_skill_no_count(table, name, now, skill, mu, sigma) ==
    [n \in DOMAIN table |->
       IF n = name
       THEN [table[n] EXCEPT !.lastseen = now, !.skill = skill, !.mu = mu,
                             !.sigma = sigma]
       ELSE table[n]]

\* a plausible slip: the statement has no "where name=?"
update_player_skill_all_rows(table, name, now, skill, mu, sigma) ==
    [n \in DOMAIN table |->
       [table[n] EXCEPT !.ngames = @ + 1, !.lastseen = now, !.skill = skill,
                        !.mu = mu, !.sigma = sigma]]

\* Database.update_player_skill: "update players set ngames=ngames+1,
\* lastseen=?, skill=?, mu=?, sigma=? where name=?", committed; a name that
\* is not in the table matches no row
update_player_skill(table, name, now, skill, mu, sigma) ==
    [n \in DOMAIN table |->
       IF n = name
       THEN [table[n] EXCEPT !.ngames = @ + 1, !.lastseen = now, !.skill = skill,
                             !.mu = mu, !.sigma = sigma]
       ELSE table[n]]

\* Manager.save_players: one player saved at the clock reading now, or the
\* write fails
SavePlayer(now) ==
    /\ pc = "save"
    /\ saveIdx <= Len(picked)
    /\ \/ /\ LET p == OPlayer(saveIdx)
             IN  db' = update_player_skill(db, p.name, now, p.skill, p.mu, p.sigma)
          /\ saveIdx' = saveIdx + 1
          /\ UNCHANGED <<pc, failure>>
       \/ /\ Raise("StoreWriteFailure")
          /\ UNCHANGED <<db, saveIdx>>
    /\ UNCHANGED <<players, rounds, round_count, picked, live, matchVars, rankList,
                   rankIdx, message, keep_replays, roundStart,
                   others>>

\* a plausible slip: "order by skill" without "desc"
SkillOrdersAscending(table) ==
    {s \in Orders(DOMAIN table) :
       \A i, j \in 1..Len(s) : i < j => table[s[i]].skill <= table[s[j]].skill}

\* "select name from players order by skill desc": rows of equal skill in any order
SkillOrders(table) ==
    {s \in Orders(DOMAIN table) :
       \A i, j \in 1..Len(s) : i < j => table[s[i]].skill >= table[s[j]].skill}

\* Database.update_player_ranks: the select
FetchRankOrder ==
    /\ pc = "save"
    /\ saveIdx > Len(picked)
    /\ \E order \in SkillOrders(db) : rankList' = order
    /\ rankIdx' = 1
    /\ pc' = "rank"
    /\ UNCHANGED <<db, players, rounds, round_count, picked, live, matchVars, saveIdx,
                   failure, message, keep_replays, roundStart,
                   others>>

\* a plausible slip: the statement has no "where name=?"
update_player_rank_all_rows(table, name, rank) ==
    [n \in DOMAIN table |-> [table[n] EXCEPT !.rank = rank]]

\* Database.update_player_rank: "update players set rank=? where name=?", committed
update_player_rank(table, name, rank) ==
    [n \in DOMAIN table |-> IF n = name THEN [table[n] EXCEPT !.rank = rank]
                            ELSE table[n]]

\* Database.update_player_ranks: one row of the loop, or the write fails
UpdatePlayerRank ==
    /\ pc = "rank"
    /\ rankIdx <= Len(rankList)
    /\ \/ /\ db' = update_player_rank(db, rankList[rankIdx], rankIdx)
          /\ rankIdx' = rankIdx + 1
          /\ UNCHANGED <<pc, failure>>
       \/ /\ Raise("StoreWriteFailure")
          /\ UNCHANGED <<db, rankIdx>>
    /\ UNCHANGED <<players, rounds, round_count, picked, live, matchVars, saveIdx,
                   rankList, message, keep_replays, roundStart,
                   others>>

\* Manager.run_rounds: the round is over, round_count += 1
EndRound ==
    /\ pc = "rank"
    /\ rankIdx > Len(rankList)
    /\ round_count' = round_count + 1
    /\ pc' = "loop"
    /\ lines' = <<>>
    /\ results' = <<>>
    /\ replay_file' = ""
    /\ saveIdx' = 0
    /\ rankList' = <<>>
    /\ rankIdx' = 0
    /\ replay' = ""
    /\ UNCHANGED <<db, players, rounds, picked, live, failure, message, keep_replays,
                   roundStart,
                   others>>

Running == {"loop", "spawn", "communicate", "parse", "update_ranks", "replay",
            "save", "rank"}

Ended == {"halted", "done", "crashed", "interrupted"}

\* Ctrl+C while the rounds run
Interrupt ==
    /\ pc \in Running
    /\ pc' = "interrupted"
    /\ failure' = "Interrupted"
    /\ UNCHANGED <<db, players, rounds, round_count, picked, live, matchVars, loopVars,
                   message, keep_replays, roundStart,
                   others>>

\* an engine that outlived its manager exits
EngineExits ==
    /\ live > (IF pc = "communicate" THEN 1 ELSE 0)
    /\ live' = live - 1
    /\ UNCHANGED <<db, pc, players, rounds, round_count, picked, matchVars, loopVars,
                   failure, message, keep_replays, roundStart,
                   others>>

\* the process is gone; the next invocation builds a new Manager
Exit ==
    /\ pc \in Ended
    /\ pc' = "idle"
    /\ players' = <<>>
    /\ rounds' = -1
    /\ round_count' = 0
    /\ picked' = <<>>
    /\ lines' = <<>>
    /\ results' = <<>>
    /\ replay_file' = ""
    /\ saveIdx' = 0
    /\ rankList' = <<>>
    /\ rankIdx' = 0
    /\ failure' = ""
    /\ message' = ""
    /\ keep_replays' = TRUE
    /\ replay' = ""
    /\ roundStart' = <<>>
    /\ others' = 0
    /\ UNCHANGED <<db, live>>

\* one invocation after the other, every bot registered under its own path,
\* the replays kept, and all of it within one reading of the clock (StoreSpec
\* and RoundsSpec below vary the paths, --no-replays and the clock)
Next ==
    \/ \E name \in Names : AddBot(name, BotPath(name), FirstTime)
    \/ \E name \in Names : DeleteBot(name)
    \/ \E name \in Names, flag \in BOOLEAN : SetActive(name, flag)
    \/ \E r \in RoundsChoices : RunMatches(r, FALSE)
    \/ RunRoundsLoop
    \/ SpawnEngine
    \/ Communicate
    \/ ParseResults
    \/ UpdateRanks
    \/ DisposeReplay
    \/ SavePlayer(FirstTime)
    \/ FetchRankOrder
    \/ UpdatePlayerRank
    \/ EndRound
    \/ Interrupt
    \/ EngineExits
    \/ Exit

Spec == Init /\ [][Next]_vars

\* --------------------------------------------- the choice of players alone
\* a table of n bots as add_player made them, loaded, the round loop about to
\* draw its players
LoadedInit(n) ==
    /\ others = 0
    /\ db = [i \in 1..n |-> NewRow(BotPath(i), FirstTime)]
    /\ players = [i \in 1..n |-> parse_player_record(i, db[i])]
    /\ message = ""
    /\ keep_replays = TRUE
    /\ round_count = 0
    /\ live = 0
    /\ replay_file = ""
    /\ saveIdx = 0
    /\ rankList = <<>>
    /\ rankIdx = 0
    /\ failure = ""

InitPick ==
    /\ \E n \in 2..MaxPool : LoadedInit(n)
    /\ lines = <<>>
    /\ replay = ""
    /\ pc = "loop"
    /\ rounds \in RoundsChoices
    /\ picked = <<>>
    /\ results = <<>>
    /\ roundStart = <<>>

NextPick == RunRoundsLoop

PickSpec == InitPick /\ [][NextPick]_vars

\* ------------------------------------------------- the parse and what follows
\* a match of all n players, in the order of the table, whose engine has
\* printed any text
InitParse ==
    /\ \E n \in 2..MaxMatchPlayers :
         /\ LoadedInit(n)
         /\ picked = [i \in 1..n |-> i - 1]
         /\ results = InitResults(n)
         /\ lines \in AnyEngineOutputs(n)
         /\ replay = IF Len(lines) > n THEN "written" ELSE ""
    /\ pc = "parse"
    /\ rounds = 1
    /\ roundStart = db

NextParse ==
    \/ ParseResults
    \/ UpdateRanks
    \/ DisposeReplay
    \/ SavePlayer(FirstTime)
    \/ FetchRankOrder
    \/ UpdatePlayerRank
    \/ EndRound

ParseSpec == InitParse /\ [][NextParse]_vars

\* ------------------------------------------- the store commands alone
\* bots registered under any path at any reading of the clock, deleted,
\* activated and deactivated, one invocation after the other
NextStore ==
    \/ \E name \in Names, path \in Paths, now \in Times : AddBot(name, path, now)
    \/ \E name \in Names : DeleteBot(name)
    \/ \E name \in Names, flag \in BOOLEAN : SetActive(name, flag)

StoreSpec == Init /\ [][NextStore]_vars

\* ------------------------------------------------ the rounds of one run
\* run_matches is called with 1 or -1; run_rounds itself takes any count
RoundsRange == -1..MaxRounds

\* the bots registered, some of them deactivated, and no invocation running
InitRounds ==
    /\ \E active \in [Names -> BOOLEAN] :
         db = [n \in Names |-> [NewRow(BotPath(n), FirstTime) EXCEPT !.active = active[n]]]
    /\ pc = "idle"
    /\ players = <<>>
    /\ rounds = -1
    /\ round_count = 0
    /\ picked = <<>>
    /\ live = 0
    /\ lines = <<>>
    /\ results = <<>>
    /\ replay_file = ""
    /\ saveIdx = 0
    /\ rankList = <<>>
    /\ rankIdx = 0
    /\ failure = ""
    /\ message = ""
    /\ keep_replays = TRUE
    /\ replay = ""
    /\ roundStart = <<>>
    /\ others = 0

NextRounds ==
    \/ \E r \in RoundsRange, deleteReplays \in BOOLEAN : RunMatches(r, deleteReplays)
    \/ RunRoundsLoop
    \/ SpawnEngine
    \/ Communicate
    \/ ParseResults
    \/ UpdateRanks
    \/ DisposeReplay
    \/ \E now \in Times : SavePlayer(now)
    \/ FetchRankOrder
    \/ UpdatePlayerRank
    \/ EndRound

RoundsSpec == InitRounds /\ [][NextRounds]_vars

\* ------------------------------- store commands given while the rounds run
\* another invocation of the manager, on the same database file, registers a
\* bot while this one runs its rounds (an insert that finds the name taken
\* after all is rejected by the table's unique constraint: the table is then
\* left as add_player leaves it)
OtherAddBot(name, path, now) ==
    /\ pc \in Running
    /\ others < MaxOthers
    /\ others' = others + 1
    /\ db' = add_player(db, name, path, now)
    /\ UNCHANGED <<pc, players, rounds, round_count, picked, live, matchVars,
                   loopVars, failure, message, keep_replays, roundStart>>

\* another invocation deletes a bot
OtherDeleteBot(name) ==
    /\ pc \in Running
    /\ others < MaxOthers
    /\ others' = others + 1
    /\ db' = delete_player(db, name)
    /\ UNCHANGED <<pc, players, rounds, round_count, picked, live, matchVars,
                   loopVars, failure, message, keep_replays, roundStart>>

\* another invocation activates or deactivates a bot
OtherSetActive(name, flag) ==
    /\ pc \in Running
    /\ others < MaxOthers
    /\ others' = others + 1
    /\ db' = set_active(db, name, flag)
    /\ UNCHANGED <<pc, players, rounds, round_count, picked, live, matchVars,
                   loopVars, failure, message, keep_replays, roundStart>>

\* one run of the rounds over the registered bots, and the store commands
\* of other invocations meanwhile
NextConc ==
    \/ \E r \in RoundsChoices : RunMatches(r, FALSE)
    \/ RunRoundsLoop
    \/ SpawnEngine
    \/ Communicate
    \/ ParseResults
    \/ UpdateRanks
    \/ DisposeReplay
    \/ SavePlayer(FirstTime)
    \/ FetchRankOrder
    \/ UpdatePlayerRank
    \/ EndRound
    \/ \E name \in Names : OtherAddBot(name, BotPath(name), FirstTime)
    \/ \E name \in Names : OtherDeleteBot(name)
    \/ \E name \in Names, flag \in BOOLEAN : OtherSetActive(name, flag)

\* the bots registered and active, and no invocation running
InitConc ==
    /\ InitRounds
    /\ \A n \in DOMAIN db : db[n].active

ConcSpec == InitConc /\ [][NextConc]_vars

\* ================================================================ properties
\* the names of the players of the current round
Participants == {OPlayer(i).name : i \in 1..Len(picked)}

\* the failures of a match
MatchFailures == {"TimedOut", "ProcessError", "ParseError"}

\* rounds remain to be run
RoundsRemain == (rounds < 0) \/ (round_count < rounds)

\* the round's rating update of player n is in the table
RatingApplied(n) ==
    /\ n \in DOMAIN db
    /\ n \in DOMAIN roundStart
    /\ db[n].ngames = roundStart[n].ngames + 1

\* the ranks of the table are exactly 1..N
RanksDense(table) ==
    /\ {table[n].rank : n \in DOMAIN table} = 1..Cardinality(DOMAIN table)
    /\ \A m, n \in DOMAIN table : m # n => table[m].rank # table[n].rank

\* a higher skill has a smaller rank
RanksFollowSkill(table) ==
    \A m, n \in DOMAIN table : table[m].skill > table[n].skill => table[m].rank < table[n].rank

\* C1: when a round has failed with TimedOut, ProcessError or ParseError, every
\* stored player's mu, sigma, skill, games played and rank are what they were
\* when the round began, and no row was added or removed.
C1_FailedRoundLeavesStore ==
    failure \in MatchFailures =>
        /\ DOMAIN db = DOMAIN roundStart
        /\ \A n \in DOMAIN db :
             /\ db[n].mu = roundStart[n].mu
             /\ db[n].sigma = roundStart[n].sigma
             /\ db[n].skill = roundStart[n].skill
             /\ db[n].ngames = roundStart[n].ngames
             /\ db[n].rank = roundStart[n].rank

\* C1 witness: a round of players who already have games and ranks timed out
C1_Witness ==
    /\ pc = "crashed"
    /\ failure = "TimedOut"
    /\ \A n \in Participants : n \in DOMAIN db /\ db[n].ngames > 0 /\ db[n].rank # Rank0

\* C2: a round that failed while rounds remain is not the end of the loop: the
\* run is never found terminated by a match failure with rounds still to run.
C2_FailedRoundIsRecovered ==
    ~(pc = "crashed" /\ failure \in MatchFailures /\ RoundsRemain)

\* C3: when a round has completed, every stored player's games played is one
\* more than when the round began if the player took part in it and the same
\* otherwise; and no step ever lowers a stored player's games played.
C3_GamesPlayed ==
    /\ [](pc = "loop" /\ round_count > 0 =>
            \A n \in DOMAIN db :
                /\ n \in DOMAIN roundStart
                /\ db[n].ngames = roundStart[n].ngames
                                    + (IF n \in Participants THEN 1 ELSE 0))
    /\ [][\A n \in (DOMAIN db) \cap (DOMAIN db') : db'[n].ngames >= db[n].ngames]_vars

\* C3 witness: a round completed with a player who took part and had a game
\* before, and a stored player who did not take part
C3_Witness ==
    /\ pc = "loop"
    /\ round_count > 0
    /\ \E n \in Participants : n \in DOMAIN db /\ db[n].ngames = 2
    /\ \E n \in DOMAIN db : n \notin Participants

\* C4: when update_player_ranks has gone through its rows, the ranks are
\* exactly 1..N without gaps or duplicates, and a higher skill has a smaller rank.
C4_RanksAfterRecompute ==
    (pc = "rank" /\ rankIdx > Len(rankList)) =>
        (RanksDense(db) /\ RanksFollowSkill(db))

\* C4 witness: ranks recomputed for three players, two of equal skill and one
\* of another skill
C4_Witness ==
    /\ pc = "rank"
    /\ rankIdx > Len(rankList)
    /\ Cardinality(DOMAIN db) = 3
    /\ \E m, n \in DOMAIN db : m # n /\ db[m].skill = db[n].skill
    /\ \E m, n \in DOMAIN db : db[m].skill > db[n].skill

\* C5 as claimed: between the operations the ranks of the stored players are
\* always exactly 1..N.
C5_RanksAlwaysDense == pc = "idle" => RanksDense(db)

\* C5 amended: right after a completed round the ranks of the stored players
\* are exactly 1..N.
C5_RanksDenseAfterRound ==
    (pc \in {"loop", "done"} /\ round_count > 0) => RanksDense(db)

\* C5 witness: a round completed over a table where a player still had the
\* rank 1000 it was registered with
C5_Witness ==
    /\ pc = "loop"
    /\ round_count > 0
    /\ \E n \in DOMAIN roundStart : roundStart[n].rank = Rank0
    /\ Cardinality(DOMAIN db) = 3

\* C6: when a round has ended, for whatever reason, either every player of the
\* round has its rating update in the table or none has.
C6_AllOrNothing ==
    (pc \in {"loop", "done", "crashed", "interrupted"} /\ picked # <<>>) =>
        \/ \A n \in Participants : RatingApplied(n)
        \/ \A n \in Participants : ~RatingApplied(n)

\* C7: the players of a round are k pairwise distinct indices of the pool,
\* with players_min <= k <= min(players_max, size of the pool).
C7_PickedPlayers ==
    pc = "spawn" =>
        /\ players_min <= Len(picked)
        /\ Len(picked) <= Min(players_max, Len(players))
        /\ \A i \in 1..Len(picked) : picked[i] \in 0..(Len(players) - 1)
        /\ \A i, j \in 1..Len(picked) : i # j => picked[i] # picked[j]

\* C7 witness: players_max of a larger pool were picked
C7_Witness ==
    /\ pc = "spawn"
    /\ Len(players) > players_max
    /\ Len(picked) = players_max

\* C8: run_matches with fewer than players_min active players halts: the table,
\* the engines and the round count are left alone, no players are picked, and
\* nothing but the end of the process follows.
C8_TooFewPlayersHalts ==
    [][/\ (pc = "idle" /\ pc' # "idle" /\ Cardinality(ActiveNames) < players_min) =>
            (pc' = "halted" /\ db' = db /\ live' = live /\ round_count' = round_count
             /\ picked' = <<>> /\ players' = <<>>)
       /\ pc = "halted" =>
            (pc' \in {"halted", "idle"} /\ db' = db /\ live' <= live
             /\ round_count' = round_count /\ picked' = <<>>)]_vars

\* C8 witness: halted with one active player and another stored
C8_Witness ==
    /\ pc = "halted"
    /\ Cardinality(ActiveNames) = 1
    /\ Cardinality(DOMAIN db) = 2

\* the player indices on the result lines of the output, 0 for a token that is
\* no number or is missing
ResultIndices ==
    LET n == Len(picked)
    IN  [i \in 1..n |->
           LET line == lines[n + 1 + i]
           IN  IF Len(line) >= 2 /\ IsInt(line[2]) THEN int(line[2]) ELSE 0]

\* C9: when the parse has succeeded, the player indices of the result lines
\* are a permutation of 1..N.
C9_IndicesArePermutation ==
    pc = "update_ranks" =>
        /\ {ResultIndices[i] : i \in 1..Len(picked)} = 1..Len(picked)
        /\ \A i, j \in 1..Len(picked) : i # j => ResultIndices[i] # ResultIndices[j]

\* the output has too few lines, or a rank or index token of a result line
\* is no number
Malformed(ls, n) ==
    \/ Len(ls) < (2 * n) + 2
    \/ \E i \in 1..n :
         LET line == ls[n + 1 + i]
         IN  ~IsInt(line[1]) \/ (Len(line) >= 2 /\ ~IsInt(line[2]))

\* C10 as claimed: after a parse error the rank vector and the replay file of
\* the match are as the match was built, and the table is as the round began.
C10_NoPartialResult ==
    failure = "ParseError" =>
        /\ results = InitResults(Len(picked))
        /\ replay_file = ""
        /\ db = roundStart

\* C10 amended: the parse of an output with too few lines, or with a rank or
\* index token that is no number, ends the run with a parse error and leaves
\* the table alone; with too few lines the match is left as built; and after
\* a parse error the table is as the round began.
C10_ParseFailure ==
    /\ [][pc = "parse" /\ Malformed(lines, Len(picked)) =>
            /\ pc' = "crashed"
            /\ failure' = "ParseError"
            /\ db' = db
            /\ Len(lines) < (2 * Len(picked)) + 2 =>
                 (results' = InitResults(Len(picked)) /\ replay_file' = "")]_vars
    /\ [](failure = "ParseError" => db = roundStart)

\* C10 witness: a parse error on an output of full length, after the replay
\* file and a rank were taken from it
C10_Witness ==
    /\ failure = "ParseError"
    /\ Len(lines) >= (2 * Len(picked)) + 2
    /\ replay_file # ""
    /\ results # InitResults(Len(picked))

\* the rating the rating engine gives for a rank
RatingFor(rank) == IF rank = 1 THEN WinnerRating ELSE LoserRating

\* C11: in a round whose output was parsed, for every result line "<rank> <i>"
\* the rank handed to the rating engine with team i is that rank, team i is
\* the player whose path was the i-th participant argument of the engine, and
\* once the ratings are back that player, and no other, holds the rating
\* computed for that rank.
C11_IndexIsInvocationOrder ==
    pc \in {"update_ranks", "replay"} =>
        \A k \in 1..Len(picked) :
            LET line == lines[Len(picked) + 1 + k]
                i == int(line[2])
                arg == Len(get_command) - Len(picked) + i
            IN  /\ results[i] = int(line[1])
                /\ get_command[arg] = players[picked[i] + 1].path
                /\ Teams[i].name = players[picked[i] + 1].name
                /\ pc = "replay" =>
                      /\ players[picked[i] + 1].mu = RatingFor(int(line[1])).mean
                      /\ players[picked[i] + 1].sigma = RatingFor(int(line[1])).stdev

\* C11 witness: three players picked out of the order of the table, ranked by
\* the engine in an order that is neither theirs nor its reverse, and rated
C11_Witness ==
    /\ pc = "replay"
    /\ Len(picked) = 3
    /\ picked # <<0, 1, 2>>
    /\ results = <<2, 3, 1>>

\* C12: once a round has ended as timed out, its engine subprocess is no
\* longer running.
C12_TimedOutEngineGone ==
    (pc = "crashed" /\ failure = "TimedOut") => live = 0

\* C13: registering a name that is already stored is refused with the
\* message that the name is used, and the table is left as it was: the
\* existing row keeps every field and no row is added.
C13_DuplicateNameRefused ==
    [][\A name \in Names :
         (name \in DOMAIN db
          /\ \E path \in Paths, now \in Times : AddBot(name, path, now)) =>
             (db' = db /\ message' = AlreadyUsed)]_vars

\* C13 witness: a registration was refused while the table held two bots, one
\* of them deactivated
C13_Witness ==
    /\ message = AlreadyUsed
    /\ Cardinality(DOMAIN db) = 2
    /\ \E n \in DOMAIN db : ~db[n].active

\* C14: saving the rating of a player whose name is no longer in the table
\* reports that the name was not found, creates and changes no row, and does
\* not end the round.
C14_MissingPlayerNotFound ==
    [][(/\ pc = "save"
        /\ saveIdx <= Len(picked)
        /\ OPlayer(saveIdx).name \notin DOMAIN db
        /\ saveIdx' = saveIdx + 1) =>
            (db' = db /\ pc' = "save" /\ failure' = "" /\ message' = "NotFound")]_vars

\* C15: every statement of update_player_ranks is committed as it is made, so
\* each value the table takes while the ranks are rewritten is one a reader
\* (another invocation listing the ranks) can be given.  The claim: if the
\* ranks were exactly 1..N when the round began, they are exactly 1..N, no two
\* players sharing a rank, in every such value.
C15_RecomputeIsAtomic ==
    (pc = "rank" /\ RanksDense(roundStart)) => RanksDense(db)

\* C16: a player that is stored and deactivated when a round starts is not
\* one of the players of that round.
C16_DeactivatedNotPicked ==
    pc = "spawn" =>
        \A n \in Participants : n \in DOMAIN roundStart => roundStart[n].active

\* C17: a run of count >= 0 rounds ends only after exactly count rounds and
\* ends as soon as they are run (at once when count = 0); a run with count < 0
\* never ends of itself; round_count goes up by one exactly when a round has
\* finished persisting and changes at no other step; and a round starts only
\* from the head of the loop, where the previous round's ratings and ranks are
\* all in the table.
C17_RoundsRunInSequence ==
    /\ [](pc = "done" => (rounds >= 0 /\ round_count = rounds))
    /\ [][pc = "loop" =>
            /\ (rounds >= 0 /\ round_count >= rounds) => pc' = "done"
            /\ (rounds < 0 \/ round_count < rounds) => pc' = "spawn"]_vars
    /\ [][pc # "idle" =>
            round_count' = round_count
                + (IF pc = "rank" /\ rankIdx > Len(rankList) /\ pc' = "loop"
                   THEN 1 ELSE 0)]_vars
    /\ [][pc' = "spawn" => pc = "loop"]_vars
    /\ [](pc = "loop" /\ round_count > 0 =>
            /\ \A n \in Participants : RatingApplied(n)
            /\ RanksDense(db))

\* C17 witness: a run of two rounds has ended
C17_Witness ==
    /\ pc = "done"
    /\ rounds = 2
    /\ round_count = 2

\* C18: when the rating engine is called, the teams it is given are the
\* players of the round, and the prior (mu, sigma) of each is what the table
\* held under that name when the round began.
C18_PriorsAreStoredRatings ==
    pc = "update_ranks" =>
        \A i \in 1..Len(picked) :
            /\ Teams[i].name \in Participants
            /\ Teams[i].name \in DOMAIN roundStart =>
                  /\ Teams[i].mu = roundStart[Teams[i].name].mu
                  /\ Teams[i].sigma = roundStart[Teams[i].name].sigma

\* C19: when a round has completed, the table holds the names it held when
\* the round began, and every player who was not in the round has the path,
\* mu, sigma, skill, games played, last seen and active flag it had then (its
\* rank may differ); and no step of a run adds or removes a row.
C19_RoundLeavesOthers ==
    /\ [](pc = "loop" /\ round_count > 0 =>
            /\ DOMAIN db = DOMAIN roundStart
            /\ \A n \in DOMAIN db \ Participants :
                 /\ db[n].path = roundStart[n].path
                 /\ db[n].mu = roundStart[n].mu
                 /\ db[n].sigma = roundStart[n].sigma
                 /\ db[n].skill = roundStart[n].skill
                 /\ db[n].ngames = roundStart[n].ngames
                 /\ db[n].lastseen = roundStart[n].lastseen
                 /\ db[n].active = roundStart[n].active)
    /\ [][DOMAIN db' = DOMAIN db]_vars

\* C19 witness: a round completed at a later reading of the clock, and a
\* deactivated player who was not in it got another rank
C19_Witness ==
    /\ pc = "loop"
    /\ round_count > 0
    /\ \E n \in DOMAIN db \ Participants :
         ~db[n].active /\ db[n].rank # roundStart[n].rank
    /\ \E n \in Participants : db[n].lastseen # roundStart[n].lastseen

\* C20: whenever the replay of the current round has been moved to the replay
\* directory or deleted, the rating of every player of the round is saved
\* and the ranks are recomputed.
C20_ReplayDisposedLast ==
    replay \in {"kept", "deleted"} =>
        /\ \A n \in Participants : RatingApplied(n)
        /\ pc = "rank"
        /\ rankIdx > Len(rankList)

====
